---- MODULE Spec2Model ----
(***************************************************************************)
(* State-machine model of the DynamoDB-backed key-value store of           *)
(* storage/database (dynamoDB, dynamoBatch, the batch write workers) and   *)
(* of its S3 overflow store (s3FileDB).                                    *)
(*                                                                         *)
(* One dynamoDB instance, one dynamoBatch driven by a single client        *)
(* goroutine, WorkerNum batch write workers, and the detached goroutines   *)
(* that dynamoBatch.Put spawns for oversized values.                       *)
(***************************************************************************)
EXTENDS Integers, Sequences, FiniteSets, TLC

(***************************************************************************)
(* Program constants.  dynamoWriteSizeLimit and the length of the          *)
(* oversize marker keep their values; dynamoBatchSize, WorkerNum and       *)
(* dynamoMaxRetry are scaled down so that the state space stays finite and *)
(* small (25, 10 and 5 in the source).                                     *)
(***************************************************************************)
dynamoWriteSizeLimit == 400 * 1024
dynamoBatchSize == 2
dynamoMaxRetry == 1
WorkerNum == 2
itemChanSize == WorkerNum * 2
overSizedDataPrefix == "oversizeditem"

(***************************************************************************)
(* Bounds of the exploration.                                              *)
(***************************************************************************)
MaxPuts == 3
MaxWrites == 2
MaxFailCount == dynamoMaxRetry + 1
MaxDepth == 2
MaxCalls == 2
MaxBody == 4
MaxCreated == 2

(***************************************************************************)
(* Keys and values.  A byte string is represented by a name and a length:  *)
(* "" is the empty string, "k" a short key, "L" a key so long that even    *)
(* the 13-byte marker does not fit beside it; "a" and "b" are short        *)
(* values, "B" a value of 500000 bytes.                                    *)
(***************************************************************************)
Keys == {"", "k", "L"}
Vals == {"", "a", "b", "B"}
\* The calls of Put that are explored, and those explored together with
\* failing BatchWriteItem calls.
PutInputs ==
  {<<"k", "a">>, <<"k", "B">>, <<"k", "">>,
   <<"L", "a">>, <<"L", "B">>, <<"", "a">>}
FaultInputs == {<<"k", "a">>, <<"k", "b">>, <<"L", "a">>}
\* The keys and values of the calls on dynamoDB that are explored, and the
\* calls of dynamoBatch.Put explored together with them.
StoreKeys == {"", "k"}
StoreVals == {"", "a", "B"}
StoreBatchInputs == {<<"k", "B">>}
\* The values of the calls of dynamoDB.Put explored without a batch: the
\* marker itself is one of them.
DirectVals == {"", "a", "B", overSizedDataPrefix}
\* The calls of dynamoBatch.Put explored to fill writeCh, an oversized item
\* and a small one in turn, and their number: one request more than writeCh
\* holds.
QueueInputs == {<<"k", "B">>, <<"L", "a">>}
QueueInput(n) == IF n % 2 = 0 THEN <<"k", "B">> ELSE <<"L", "a">>
MaxQueuePuts == (itemChanSize + 1) * dynamoBatchSize
NoRow == "<none>"
Nil == [key |-> "<nil>", val |-> "<nil>"]

len(s) ==
  CASE s = "" -> 0
    [] s = "k" -> 1
    [] s = "L" -> dynamoWriteSizeLimit - 5
    [] s = "a" -> 1
    [] s = "b" -> 1
    [] s = "B" -> 500000
    [] s = overSizedDataPrefix -> 13

\* hexutil.Encode of a key: the name of its object in the bucket.
Encode(k) ==
  CASE k = "" -> "0x"
    [] k = "k" -> "0x6b"
    [] k = "L" -> "0x4c4c"

BlobNames == {Encode(k) : k \in Keys}

Workers == 1..WorkerNum

VARIABLES
  table,        \* the DynamoDB table: key -> Val of its row, or NoRow
  blobs,        \* the S3 bucket: object name -> body, or NoRow
  quitCh,       \* TRUE once dynamo.quitCh is closed
  writeCh,      \* dynamo.writeCh: queue of batchWriteWorkerInput
  worker,       \* per worker: position, failCount, batchInput, RequestItems
  batchArr,     \* backing array of batch.batchItems
  batchOff,     \* start of batch.batchItems within its backing array
  batchLen,     \* len(batch.batchItems)
  size,         \* batch.size
  wg,           \* counter of batch.wg
  uploads,      \* running goroutines of dynamoBatch.Put: <<key, val>> -> count
  sleeping,     \* those of them that sleep after a failed fdb.write
  cpc,          \* position of the client goroutine
  numRemainedItems, \* local of dynamoBatch.Write
  hist,         \* history of the client's calls (observation only)
  op,           \* the client's call of dynamoDB.Put, Get, Has or Delete
  rd,           \* a call of s3FileDB.read: its locals and its result
  ctor,         \* NewDynamoDB: position, workers started, result
  tstat         \* status of the table at the DynamoDB service

vars == <<table, blobs, quitCh, writeCh, worker, batchArr, batchOff, batchLen,
          size, wg, uploads, sleeping, cpc, numRemainedItems, hist,
          op, rd, ctor, tstat>>

\* The state of dynamoBatch, of the workers and of the upload goroutines.
batchVars == <<quitCh, writeCh, worker, batchArr, batchOff, batchLen, size, wg,
               uploads, sleeping, cpc, numRemainedItems, hist>>

\* The state of the calls on dynamoDB and s3FileDB and of NewDynamoDB.
storeVars == <<op, rd, ctor, tstat>>

Items == [key : Keys, val : Vals \cup {overSizedDataPrefix}]

Item(k, v) == [key |-> k, val |-> v]

Range(s) == {s[i] : i \in 1..Len(s)}

(***************************************************************************)
(* Slices.  batch.batchItems is the window [batchOff, batchOff+batchLen)   *)
(* of batchArr.  A batchWriteWorkerInput carries a slice header: while     *)
(* alias is TRUE it denotes a window of batchArr (it shares the backing    *)
(* array with batch.batchItems); once append has moved batch.batchItems to *)
(* a new backing array, the old array is never written again and the       *)
(* header is represented by the contents it then has (items).  orig is     *)
(* the contents at the time of the send (observation only).                *)
(***************************************************************************)
NoReq == [alias |-> FALSE, off |-> 0, len |-> 0, items |-> <<>>, orig |-> <<>>]

Window(arr, off, n) == SubSeq(arr, off + 1, off + n)

View(req) == IF req.alias THEN Window(batchArr, req.off, req.len) ELSE req.items

Freeze(req) ==
  IF req.alias
    THEN [req EXCEPT !.alias = FALSE, !.off = 0, !.items = View(req)]
    ELSE req

\* A request that leaves out the first item of batch.batchItems.
BatchItemsButFirst ==
  [alias |-> TRUE, off |-> batchOff + 1, len |-> batchLen - 1, items |-> <<>>,
   orig |-> Window(batchArr, batchOff + 1, batchLen - 1)]

\* The slice header of batch.batchItems, as sent on writeCh.
BatchItemsHeader ==
  [alias |-> TRUE, off |-> batchOff, len |-> batchLen, items |-> <<>>,
   orig |-> Window(batchArr, batchOff, batchLen)]

\* Capacity chosen by append when the backing array is full.
GrowCap(c) == IF c = 0 THEN 1 ELSE 2 * c

Pad(s, n) == s \o [i \in 1..(n - Len(s)) |-> Nil]

\* append(batch.batchItems, it): <<backing array, offset, reallocated>>.
AppendItem(it) ==
  IF batchOff + batchLen < Len(batchArr)
    THEN <<[batchArr EXCEPT ![batchOff + batchLen + 1] = it], batchOff, FALSE>>
    ELSE <<Pad(Append(Window(batchArr, batchOff, batchLen), it),
               GrowCap(Len(batchArr) - batchOff)),
           0, TRUE>>

(***************************************************************************)
(* dynamoDB.Get on the current table and bucket, when GetItem and          *)
(* GetObject themselves succeed.                                           *)
(***************************************************************************)
Get(k) ==
  IF table[k] = NoRow THEN "dataNotFoundErr"
  ELSE IF table[k] = overSizedDataPrefix
    THEN (IF blobs[Encode(k)] = NoRow THEN "NoSuchKey" ELSE blobs[Encode(k)])
  ELSE table[k]

(***************************************************************************)
(* The table service: an item is accepted only with a non-empty key and    *)
(* within the item size limit, a batch only if all its items are accepted  *)
(* and no two of them have the same key.                                   *)
(***************************************************************************)
ValidItem(it) ==
  /\ len(it.key) > 0
  /\ len(it.key) + len(it.val) <= dynamoWriteSizeLimit

ValidBatch(its) ==
  /\ \A i \in 1..Len(its) : ValidItem(its[i])
  /\ \A i, j \in 1..Len(its) : i # j => its[i].key # its[j].key

\* Tables that can result from writing the items at indices P of its, in
\* any order.
TablesAfter(its, P) ==
  LET KP == {its[i].key : i \in P}
      vs(k) == {its[i].val : i \in {j \in P : its[j].key = k}}
      last == {c \in [KP -> {its[i].val : i \in P}] : \A k \in KP : c[k] \in vs(k)}
  IN  {[k \in Keys |-> IF k \in KP THEN c[k] ELSE table[k]] : c \in last}

SubSeqAt(its, U) ==
  LET F[i \in 0..Len(its)] ==
        IF i = 0 THEN <<>>
        ELSE IF i \in U THEN Append(F[i - 1], its[i]) ELSE F[i - 1]
  IN  F[Len(its)]

NoCov == [k \in Keys |-> NoRow]

\* No call of dynamoDB.Put, Get, Has or Delete has been made yet.
NoOp ==
  [name |-> "none", key |-> "", val |-> "", arg |-> "", pc |-> "returned",
   ret |-> "", err |-> "nil", depth |-> 0, nBlob |-> 0, nRow |-> 0, n |-> 0]

\* No call of s3FileDB.read has been made yet.
NoRead ==
  [pc |-> "returned", body |-> <<>>, bodySize |-> 0, totalReadSize |-> 0,
   lenBuf |-> 0, returnVal |-> <<>>, err |-> "nil"]

\* A worker at the select of its loop, and one not started yet.
WorkerAt(pc) ==
  [pc |-> pc, failCount |-> 0, req |-> NoReq, own |-> FALSE,
   items |-> <<>>, buf |-> <<>>, written |-> {},
   nErr |-> 0, lastErr |-> FALSE, lastU |-> <<>>, lastP |-> {}]

\* Everything but the constructor, the table status and the workers.
InitRest ==
  /\ table = [k \in Keys |-> NoRow]
  /\ blobs = [n \in BlobNames |-> NoRow]
  /\ quitCh = FALSE
  /\ writeCh = <<>>
  /\ batchArr = <<>>
  /\ batchOff = 0
  /\ batchLen = 0
  /\ size = 0
  /\ wg = 0
  /\ uploads = [u \in Keys \X Vals |-> 0]
  /\ sleeping = [u \in Keys \X Vals |-> 0]
  /\ cpc = "idle"
  /\ numRemainedItems = 0
  /\ hist = [cov |-> NoCov, old |-> {}, dirty |-> FALSE,
             nCalls |-> 0, nPut |-> 0, nEnq |-> 0, nFlush |-> 0,
             wasReset |-> FALSE, pending |-> {}]
  /\ op = NoOp
  /\ rd = NoRead

\* NewDynamoDB has returned a dynamoDB on an active table, NewBatch a batch.
Init ==
  /\ InitRest
  /\ worker = [w \in Workers |-> WorkerAt("select")]
  /\ ctor = [pc |-> "returned", tableStatus |-> "ACTIVE", started |-> WorkerNum,
             created |-> 0, err |-> "nil"]
  /\ tstat = "ACTIVE"

\* The statuses of a table; "NotFound" stands for no table.
TableStatuses ==
  {"NotFound", "CREATING", "UPDATING", "ACTIVE", "DELETING", "ARCHIVING",
   "ARCHIVED"}

\* NewDynamoDB is about to be called; the table is in any status.
InitNew ==
  /\ InitRest
  /\ worker = [w \in Workers |-> WorkerAt("unstarted")]
  /\ ctor = [pc |-> "start", tableStatus |-> "", started |-> 0, created |-> 0,
             err |-> "nil"]
  /\ tstat \in TableStatuses

(***************************************************************************)
(* dynamoBatch                                                             *)
(***************************************************************************)

\* History of a Put call with a non-empty value.
HistPut(k, v) ==
  [hist EXCEPT !.dirty = TRUE, !.nCalls = @ + 1, !.nPut = @ + 1,
               !.old = IF hist.dirty THEN @
                         ELSE @ \cup {j \in Keys : hist.cov[j] # NoRow},
               !.cov = IF hist.dirty THEN [@ EXCEPT ![k] = v]
                         ELSE [NoCov EXCEPT ![k] = v]]

\* History of a Put call: one with an empty value only counts as a call.
HistCall(k, v) ==
  IF len(v) = 0 THEN [hist EXCEPT !.nCalls = @ + 1] ELSE HistPut(k, v)

\* A test that lets the empty value through.
DataSizeNegative(dataSize) == dataSize < 0

\* The test of dynamoBatch.Put that drops the call.
DataSizeZero(dataSize) == dataSize = 0

\* A test that lets batchItems grow past dynamoBatchSize before it is sent.
BatchFullLate(n) == n > dynamoBatchSize

\* The test of dynamoBatch.Put that sends batchItems to the workers.
BatchFull(n) == n = dynamoBatchSize

\* A size that counts the value of the call, not the value of the item.
DataSizeOfArgument(v, val) == len(v)

\* dataSize when dynamoBatch.Put adds it to batch.size: the length of the
\* value of the item, which is the marker for an oversized item.
DataSize(v, val) == len(val)

\* dynamoBatch.Put up to the channel send: the empty value returns at once;
\* an oversized item registers on wg, starts its upload goroutine and is
\* replaced by the marker; the item is appended and, when batchItems has
\* reached dynamoBatchSize, wg is incremented and the send is pending.
Put(k, v) ==
  /\ UNCHANGED storeVars
  /\ cpc = "idle"
  /\ hist' = HistCall(k, v)
  /\ IF DataSizeZero(len(v))
       THEN UNCHANGED <<table, blobs, quitCh, writeCh, worker, batchArr,
                           batchOff, batchLen, size, wg, uploads, sleeping,
                           cpc, numRemainedItems>>
       ELSE LET over == len(k) + len(v) > dynamoWriteSizeLimit
                val == IF over THEN overSizedDataPrefix ELSE v
                app == AppendItem(Item(k, val))
                full == BatchFull(batchLen + 1)
            IN  /\ uploads' = IF over THEN [uploads EXCEPT ![<<k, v>>] = @ + 1]
                                      ELSE uploads
                /\ wg' = wg + (IF over THEN 1 ELSE 0) + (IF full THEN 1 ELSE 0)
                /\ batchArr' = app[1]
                /\ batchOff' = app[2]
                /\ batchLen' = batchLen + 1
                /\ writeCh' = IF app[3] THEN [i \in 1..Len(writeCh) |-> Freeze(writeCh[i])]
                                        ELSE writeCh
                /\ worker' = IF app[3]
                               THEN [w \in Workers |->
                                      [worker[w] EXCEPT !.req = Freeze(@)]]
                               ELSE worker
                /\ size' = size + DataSize(v, val)
                /\ cpc' = IF full THEN "put_send" ELSE "idle"
                /\ UNCHANGED <<table, blobs, quitCh, sleeping, numRemainedItems>>

\* A channel that takes any number of requests.
ChanAlwaysRoom(n) == TRUE

\* A send on dynamo.writeCh proceeds while fewer than itemChanSize requests
\* are buffered (no worker is modelled as waiting in a receive: a receive
\* takes the head of the buffer).
ChanHasRoom(n) == n < itemChanSize

\* A Reset that zeroes the size and keeps the items.
TruncateNothing(n) == n

\* dynamoBatch.Reset: the length of batch.batchItems[:0].
Truncate(n) == 0

\* The send of dynamoBatch.Put on writeCh, which blocks while the channel is
\* full, followed by batch.Reset().
PutSend ==
  /\ UNCHANGED storeVars
  /\ cpc = "put_send"
  /\ ChanHasRoom(Len(writeCh))
  /\ writeCh' = Append(writeCh, BatchItemsHeader)
  /\ batchLen' = Truncate(batchLen)
  /\ size' = 0
  /\ cpc' = "idle"
  /\ hist' = [hist EXCEPT !.nEnq = @ + 1,
                          !.pending = @ \cup Range(BatchItemsHeader.orig)]
  /\ UNCHANGED <<table, blobs, quitCh, worker, batchArr, batchOff, wg, uploads,
                 sleeping, numRemainedItems>>

\* History of a Write call that returns.
HistFlushed == [hist EXCEPT !.dirty = FALSE]

\* The guard of dynamoBatch.Write that returns without sending or waiting.
WriteReturnsEarly == size = 0

\* dynamoBatch.Write, entry: return at once, or start the loop.
Write ==
  /\ UNCHANGED storeVars
  /\ cpc = "idle"
  /\ IF WriteReturnsEarly
       THEN /\ hist' = [HistFlushed EXCEPT !.nFlush = @ + 1]
            /\ UNCHANGED <<cpc, numRemainedItems>>
       ELSE /\ numRemainedItems' = batchLen
            /\ cpc' = IF batchLen > 0 THEN "write_loop" ELSE "write_wait"
            /\ hist' = [hist EXCEPT !.nFlush = @ + 1]
  /\ UNCHANGED <<table, blobs, quitCh, writeCh, worker, batchArr, batchOff,
                 batchLen, size, wg, uploads, sleeping>>

\* One iteration of the loop of dynamoBatch.Write: writeRequest is a prefix
\* of batchItems (and batchItems moves past it) when more than
\* dynamoBatchSize items remain, else all of batchItems; what is sent is
\* batch.batchItems.
WriteSend ==
  /\ UNCHANGED storeVars
  /\ cpc = "write_loop"
  /\ ChanHasRoom(Len(writeCh))
  /\ LET cut == numRemainedItems > dynamoBatchSize
         lenWriteRequest == IF cut THEN dynamoBatchSize ELSE batchLen
         off == IF cut THEN batchOff + dynamoBatchSize ELSE batchOff
         n == IF cut THEN batchLen - dynamoBatchSize ELSE batchLen
         sent == [alias |-> TRUE, off |-> off, len |-> n, items |-> <<>>,
                  orig |-> Window(batchArr, off, n)]
     IN  /\ batchOff' = off
         /\ batchLen' = n
         /\ wg' = wg + 1
         /\ writeCh' = Append(writeCh, sent)
         /\ numRemainedItems' = numRemainedItems - lenWriteRequest
         /\ cpc' = IF numRemainedItems - lenWriteRequest > 0
                     THEN "write_loop" ELSE "write_wait"
         /\ hist' = [hist EXCEPT !.nEnq = @ + 1,
                                 !.pending = @ \cup Range(sent.orig)]
  /\ UNCHANGED <<table, blobs, quitCh, worker, batchArr, size, uploads, sleeping>>

\* batch.wg.Wait() at the end of dynamoBatch.Write, and its return.
WriteWait ==
  /\ UNCHANGED storeVars
  /\ cpc = "write_wait"
  /\ wg = 0
  /\ cpc' = "idle"
  /\ hist' = HistFlushed
  /\ UNCHANGED <<table, blobs, quitCh, writeCh, worker, batchArr, batchOff,
                 batchLen, size, wg, uploads, sleeping, numRemainedItems>>

\* dynamoBatch.Reset called by the client.
Reset ==
  /\ UNCHANGED storeVars
  /\ cpc = "idle"
  /\ batchLen' = Truncate(batchLen)
  /\ size' = 0
  /\ hist' = [hist EXCEPT !.wasReset = TRUE, !.cov = NoCov]
  /\ UNCHANGED <<table, blobs, quitCh, writeCh, worker, batchArr, batchOff, wg,
                 uploads, sleeping, cpc, numRemainedItems>>

\* dynamoDB.Close.
Close ==
  /\ UNCHANGED storeVars
  /\ ~quitCh
  /\ quitCh' = TRUE
  /\ UNCHANGED <<table, blobs, writeCh, worker, batchArr, batchOff, batchLen,
                 size, wg, uploads, sleeping, cpc, numRemainedItems, hist>>

(***************************************************************************)
(* The goroutine that dynamoBatch.Put starts for an oversized item.        *)
(***************************************************************************)

\* A Done that takes two units off the counter.
WgDoneTwice(n) == n - 2

\* batch.wg.Done().
WgDone(n) == n - 1

\* s3FileDB.write succeeds: the object is stored and the goroutine calls
\* batch.wg.Done().
UploadDone(k, v) ==
  /\ UNCHANGED storeVars
  /\ uploads[<<k, v>>] > sleeping[<<k, v>>]
  /\ blobs' = [blobs EXCEPT ![Encode(k)] = v]
  /\ uploads' = [uploads EXCEPT ![<<k, v>>] = @ - 1]
  /\ wg' = WgDone(wg)
  /\ UNCHANGED <<table, quitCh, writeCh, worker, batchArr, batchOff, batchLen,
                 size, sleeping, cpc, numRemainedItems, hist>>

\* A goroutine that gives up after a failed s3FileDB.write.
UploadGivesUp(k, v) ==
  /\ UNCHANGED storeVars
  /\ uploads[<<k, v>>] > sleeping[<<k, v>>]
  /\ uploads' = [uploads EXCEPT ![<<k, v>>] = @ - 1]
  /\ wg' = WgDone(wg)
  /\ UNCHANGED <<table, blobs, quitCh, writeCh, worker, batchArr, batchOff,
                 batchLen, size, sleeping, cpc, numRemainedItems, hist>>

\* s3FileDB.write fails: the goroutine goes to sleep for a second.
UploadFail(k, v) ==
  /\ UNCHANGED storeVars
  /\ uploads[<<k, v>>] > sleeping[<<k, v>>]
  /\ sleeping' = [sleeping EXCEPT ![<<k, v>>] = @ + 1]
  /\ UNCHANGED <<table, blobs, quitCh, writeCh, worker, batchArr, batchOff,
                 batchLen, size, wg, uploads, cpc, numRemainedItems, hist>>

\* The goroutine wakes up and calls s3FileDB.write again.
UploadRetry(k, v) ==
  /\ UNCHANGED storeVars
  /\ sleeping[<<k, v>>] > 0
  /\ sleeping' = [sleeping EXCEPT ![<<k, v>>] = @ - 1]
  /\ UNCHANGED <<table, blobs, quitCh, writeCh, worker, batchArr, batchOff,
                 batchLen, size, wg, uploads, cpc, numRemainedItems, hist>>

(***************************************************************************)
(* dynamoDB.createBatchWriteWorker                                         *)
(***************************************************************************)

\* batchWriteInput.RequestItems[tableName] of a worker.
RequestItems(wr) == IF wr.own THEN wr.items ELSE View(wr.req)

\* The worker is about to call BatchWriteItem: the SDK reads the request
\* items one by one when they may still change under it, at once otherwise.
BeforeCall(wr) ==
  IF ~wr.own /\ wr.req.alias
    THEN [wr EXCEPT !.pc = "marshal", !.buf = <<>>]
    ELSE [wr EXCEPT !.pc = "call", !.buf = RequestItems(wr)]

\* select, case <-dynamo.quitCh.
WorkerQuit(w) ==
  /\ UNCHANGED storeVars
  /\ worker[w].pc = "select"
  /\ quitCh
  /\ worker' = [worker EXCEPT ![w].pc = "exited"]
  /\ UNCHANGED <<table, blobs, quitCh, writeCh, batchArr, batchOff, batchLen,
                 size, wg, uploads, sleeping, cpc, numRemainedItems, hist>>

\* select, case batchInput := <-dynamo.writeCh.
WorkerRecv(w) ==
  /\ UNCHANGED storeVars
  /\ worker[w].pc = "select"
  /\ writeCh # <<>>
  /\ writeCh' = Tail(writeCh)
  /\ worker' = [worker EXCEPT ![w] =
                  BeforeCall([@ EXCEPT !.req = Head(writeCh), !.own = FALSE,
                                       !.items = <<>>, !.written = {}])]
  /\ UNCHANGED <<table, blobs, quitCh, batchArr, batchOff, batchLen, size, wg,
                 uploads, sleeping, cpc, numRemainedItems, hist>>

\* BatchWriteItem reads the next item of a slice shared with the batch.
WorkerMarshal(w) ==
  /\ UNCHANGED storeVars
  /\ worker[w].pc = "marshal"
  /\ LET wr == worker[w]
         src == RequestItems(wr)
         i == Len(wr.buf) + 1
     IN  worker' = [worker EXCEPT ![w].buf = Append(@, src[i]),
                                  ![w].pc = IF i = Len(src) THEN "call" ELSE "marshal"]
  /\ UNCHANGED <<table, blobs, quitCh, writeCh, batchArr, batchOff, batchLen,
                 size, wg, uploads, sleeping, cpc, numRemainedItems, hist>>

\* The loop condition of the worker: retry after this call?
Retry(err, numUnprocessed) == err \/ numUnprocessed # 0

\* A failure counter that counts every call.
FailCountAfterCall(failCount, err) == failCount + 1

\* The failure counter after a call.
FailCountAfter(failCount, err) == IF err THEN failCount + 1 ELSE failCount

\* A retry that sends the whole request again.
NextItemsAll(wr, unprocessed) == wr

\* The request items of the next attempt: UnprocessedItems if there are
\* any, else unchanged.
NextItems(wr, unprocessed) ==
  IF Len(unprocessed) # 0
    THEN [wr EXCEPT !.own = TRUE, !.items = unprocessed]
    ELSE wr

\* dynamo.db.BatchWriteItem returns: the items at P have been written, those
\* at U are returned as unprocessed, err tells whether the call failed.  A
\* call without error leaves no item out; a failed call writes nothing and
\* returns an empty output, or reports the items it did not write as
\* unprocessed; a call with a batch the service does not accept fails.  faulty tells whether the call fails or leaves items unprocessed.
WorkerCall(w, faulty) ==
  /\ UNCHANGED storeVars
  /\ worker[w].pc = "call"
  /\ LET wr == worker[w]
         its == wr.buf
         idx == 1..Len(its)
     IN  \E err \in BOOLEAN, P \in SUBSET idx :
         \E U \in SUBSET (idx \ P) :
           /\ faulty = Retry(err, Cardinality(U))
           /\ err => wr.failCount < MaxFailCount
           /\ err => \/ P = {} /\ U = {}
                     \/ U # {} /\ P \cup U = idx
           /\ ~err => P \cup U = idx
           /\ ~ValidBatch(its) => (err /\ P = {} /\ U = {})
           /\ table' \in TablesAfter(its, P)
           /\ LET wrote == {its[i] : i \in P}
                  fc == FailCountAfter(wr.failCount, err)
                  wr1 == [wr EXCEPT !.failCount = fc, !.written = @ \cup wrote,
                                    !.nErr = IF err THEN @ + 1 ELSE @,
                                    !.lastErr = err,
                                    !.lastU = SubSeqAt(its, U),
                                    !.lastP = wrote]
                  wr2 == NextItems(wr1, SubSeqAt(its, U))
              IN  /\ worker' = [worker EXCEPT ![w] =
                        IF Retry(err, Cardinality(U))
                          THEN IF err /\ fc > dynamoMaxRetry
                                 THEN [wr2 EXCEPT !.pc = "sleep", !.buf = <<>>]
                                 ELSE BeforeCall(wr2)
                          ELSE [wr1 EXCEPT !.pc = "done", !.buf = <<>>]]
                  /\ hist' = [hist EXCEPT !.pending = @ \ wrote]
  /\ UNCHANGED <<blobs, quitCh, writeCh, batchArr, batchOff, batchLen, size, wg,
                 uploads, sleeping, cpc, numRemainedItems>>

\* time.Sleep(time.Second) is over.
WorkerWake(w) ==
  /\ UNCHANGED storeVars
  /\ worker[w].pc = "sleep"
  /\ worker' = [worker EXCEPT ![w] = BeforeCall(@)]
  /\ UNCHANGED <<table, blobs, quitCh, writeCh, batchArr, batchOff, batchLen,
                 size, wg, uploads, sleeping, cpc, numRemainedItems, hist>>

\* After the loop: failCount = 0; batchInput.wg.Done().
WorkerDone(w) ==
  /\ UNCHANGED storeVars
  /\ worker[w].pc = "done"
  /\ worker' = [worker EXCEPT ![w] = WorkerAt("select")]
  /\ wg' = WgDone(wg)
  /\ UNCHANGED <<table, blobs, quitCh, writeCh, batchArr, batchOff, batchLen,
                 size, uploads, sleeping, cpc, numRemainedItems, hist>>

(***************************************************************************)
(* dynamoDB.Get, Has, Put and Delete, called by a goroutine of its own.    *)
(* A row whose Val attribute is NULL is represented by the value "".       *)
(***************************************************************************)

\* The record of a call that has returned.
Returned(o, ret, err) == [o EXCEPT !.pc = "returned", !.ret = ret, !.err = err]

\* A new call on dynamoDB; arg keeps the value the caller passed, val is the
\* value of the current activation.
NewOp(name, k, v) ==
  [name |-> name, key |-> k, val |-> v, arg |-> v, pc |-> "entry", ret |-> "",
   err |-> "nil", depth |-> 0, nBlob |-> 0, nRow |-> 0, n |-> op.n + 1]

\* s3FileDB.read of the object of key k, when its loop ends: GetObject
\* fails for a missing object, else the body is returned.
FdbRead(k) ==
  IF blobs[Encode(k)] = NoRow
    THEN <<"", "NoSuchKey">>
    ELSE <<blobs[Encode(k)], "nil">>

\* A Get that returns the Val of the row whatever it is.
GetReturnsRow(k, getItemErr) ==
  IF getItemErr THEN <<"", "GetItemErr">>
  ELSE IF table[k] = NoRow THEN <<"", "dataNotFoundErr">>
  ELSE <<table[k], "nil">>

\* dynamoDB.Get: <<value, error>> for the current table and bucket.
GetReturns(k, getItemErr) ==
  IF getItemErr THEN <<"", "GetItemErr">>
  ELSE IF table[k] = NoRow THEN <<"", "dataNotFoundErr">>
  ELSE IF table[k] = "" THEN <<"", "nil">>
  ELSE IF table[k] = overSizedDataPrefix THEN FdbRead(k)
  ELSE <<table[k], "nil">>

\* dynamoDB.Has: <<found, error>> from the result of Get.
HasReturns(g) == IF g[2] # "nil" THEN <<"false", g[2]>> ELSE <<"true", "nil">>

\* Get delegates to s3FileDB.read and the object exists with a body: read
\* enters its loop.
GetReads(k, getItemErr) ==
  /\ ~getItemErr
  /\ table[k] = overSizedDataPrefix
  /\ blobs[Encode(k)] # NoRow
  /\ len(blobs[Encode(k)]) > 0

\* dynamoDB.Get(k).
DynamoGet(k, getItemErr) ==
  /\ ctor.pc = "returned" /\ ctor.err = "nil"
  /\ op.pc = "returned"
  /\ op' = IF GetReads(k, getItemErr)
             THEN [NewOp("Get", k, "") EXCEPT !.pc = "read"]
             ELSE LET g == GetReturns(k, getItemErr)
                  IN  Returned(NewOp("Get", k, ""), g[1], g[2])
  /\ UNCHANGED <<table, blobs, rd, ctor, tstat>>
  /\ UNCHANGED batchVars

\* dynamoDB.Has(k).
DynamoHas(k, getItemErr) ==
  /\ ctor.pc = "returned" /\ ctor.err = "nil"
  /\ op.pc = "returned"
  /\ op' = IF GetReads(k, getItemErr)
             THEN [NewOp("Has", k, "") EXCEPT !.pc = "read"]
             ELSE LET h == HasReturns(GetReturns(k, getItemErr))
                  IN  Returned(NewOp("Has", k, ""), h[1], h[2])
  /\ UNCHANGED <<table, blobs, rd, ctor, tstat>>
  /\ UNCHANGED batchVars

\* The loop of s3FileDB.read called by Get ends, which it does when the
\* first Body.Read delivers the whole body; Get, or Has, returns.
ReadEnds ==
  /\ op.pc = "read"
  /\ LET r == FdbRead(op.key)
     IN  op' = IF op.name = "Has"
                 THEN Returned(op, HasReturns(r)[1], HasReturns(r)[2])
                 ELSE Returned(op, r[1], r[2])
  /\ UNCHANGED <<table, blobs, rd, ctor, tstat>>
  /\ UNCHANGED batchVars

\* A test of the key that lets every key through.
EmptyKeyNever(k) == FALSE

\* The test of dynamoDB.Put that makes the call a no-op.
EmptyKey(k) == len(k) = 0

\* A test that sends every item to the bucket.
ExceedsAlways(k, v) == TRUE

\* The test of dynamoDB.Put that delegates the value to s3FileDB.write.
ExceedsLimit(k, v) == len(k) + len(v) > dynamoWriteSizeLimit

\* dynamoDB.Put(k, v) is called.
DynamoPut(k, v) ==
  /\ ctor.pc = "returned" /\ ctor.err = "nil"
  /\ op.pc = "returned"
  /\ op' = NewOp("Put", k, v)
  /\ UNCHANGED <<table, blobs, rd, ctor, tstat>>
  /\ UNCHANGED batchVars

\* One activation of dynamoDB.Put with the arguments (op.key, op.val): an
\* empty key returns; an oversized item is written to the bucket and Put
\* calls itself with the marker as the value; else the item is written to
\* the table.  s3Err and putItemErr tell whether PutObject and PutItem fail;
\* PutItem also fails for an item the service does not accept.
DynamoPutStep(s3Err, putItemErr) ==
  /\ op.name = "Put" /\ op.pc = "entry"
  /\ IF EmptyKey(op.key)
       THEN /\ op' = Returned(op, "", "nil")
            /\ UNCHANGED <<table, blobs>>
     ELSE IF ExceedsLimit(op.key, op.val)
       THEN /\ op.depth < MaxDepth
            /\ IF s3Err
                 THEN /\ op' = Returned(op, "", "S3Err")
                      /\ UNCHANGED blobs
                 ELSE /\ blobs' = [blobs EXCEPT ![Encode(op.key)] = op.val]
                      /\ op' = [op EXCEPT !.val = overSizedDataPrefix,
                                          !.depth = @ + 1, !.nBlob = @ + 1]
            /\ UNCHANGED table
     ELSE IF putItemErr \/ ~ValidItem(Item(op.key, op.val))
       THEN /\ op' = Returned(op, "", "PutItemErr")
            /\ UNCHANGED <<table, blobs>>
     ELSE /\ table' = [table EXCEPT ![op.key] = op.val]
          /\ op' = Returned([op EXCEPT !.nRow = @ + 1], "", "nil")
          /\ UNCHANGED blobs
  /\ UNCHANGED <<rd, ctor, tstat>>
  /\ UNCHANGED batchVars

\* A Delete that also removes the object of the key from the bucket.
BucketAfterDeleteObject(k) == [blobs EXCEPT ![Encode(k)] = NoRow]

\* The bucket after dynamoDB.Delete(k): Delete does not call s3FileDB.delete.
BucketAfterDelete(k) == blobs

\* dynamoDB.Delete(k): DeleteItem removes the row if there is one; it fails
\* when deleteItemErr says so or with an empty key.
DynamoDelete(k, deleteItemErr) ==
  /\ ctor.pc = "returned" /\ ctor.err = "nil"
  /\ op.pc = "returned"
  /\ IF deleteItemErr \/ len(k) = 0
       THEN /\ op' = Returned(NewOp("Delete", k, ""), "", "DeleteItemErr")
            /\ UNCHANGED <<table, blobs>>
       ELSE /\ table' = [table EXCEPT ![k] = NoRow]
            /\ blobs' = BucketAfterDelete(k)
            /\ op' = Returned(NewOp("Delete", k, ""), "", "nil")
  /\ UNCHANGED <<rd, ctor, tstat>>
  /\ UNCHANGED batchVars

(***************************************************************************)
(* s3FileDB.read.  The body of the object is a sequence of bytes; GetObject *)
(* reports its length as ContentLength and Body delivers exactly these     *)
(* bytes, in as many calls of Read as it likes.                            *)
(***************************************************************************)
Bytes == {"x", "y"}

Bodies == UNION {[1..n -> Bytes] : n \in 0..MaxBody}

Min(a, b) == IF a < b THEN a ELSE b

\* s3FileDB.read up to its loop: GetObject, bodySize, buf := make([]byte,
\* bodySize).
ReadCall(body, getObjectErr) ==
  /\ rd.pc = "returned"
  /\ rd' = IF getObjectErr
             THEN [NoRead EXCEPT !.body = body, !.err = "GetObjectErr"]
             ELSE [pc |-> IF 0 < Len(body) THEN "loop" ELSE "returned",
                   body |-> body, bodySize |-> Len(body), totalReadSize |-> 0,
                   lenBuf |-> Len(body), returnVal |-> <<>>, err |-> "nil"]
  /\ UNCHANGED <<table, blobs, op, ctor, tstat>>
  /\ UNCHANGED batchVars

\* What output.Body.Read(buf) may return with n bytes and the error err: at
\* most len(buf) bytes and at most those left; at least one byte without an
\* error if buf has room; io.EOF only when the body ends with these bytes.
BodyRead(n, err) ==
  /\ n \in 0..Min(rd.lenBuf, rd.bodySize - rd.totalReadSize)
  /\ err \in {"nil", "EOF", "reset"}
  /\ (err = "nil" /\ rd.lenBuf > 0) => n > 0
  /\ err = "EOF" => rd.totalReadSize + n = rd.bodySize

\* One iteration of the loop of s3FileDB.read.
ReadStep(n, err) ==
  /\ rd.pc = "loop"
  /\ BodyRead(n, err)
  /\ rd' = IF err \notin {"nil", "EOF"}
             THEN [rd EXCEPT !.pc = "returned", !.returnVal = <<>>, !.err = err]
             ELSE [rd EXCEPT
                     !.returnVal = @ \o SubSeq(rd.body, rd.totalReadSize + 1,
                                               rd.totalReadSize + n),
                     !.totalReadSize = @ + n,
                     !.lenBuf = 0,
                     !.pc = IF rd.totalReadSize + n < rd.bodySize
                              THEN "loop" ELSE "returned"]
  /\ UNCHANGED <<table, blobs, op, ctor, tstat>>
  /\ UNCHANGED batchVars

(***************************************************************************)
(* NewDynamoDB                                                             *)
(***************************************************************************)

\* NewDynamoDB returns an error.
Failed(err) == [ctor EXCEPT !.pc = "returned", !.err = err]

\* NewDynamoDB up to its loop: the nil configuration and a failing
\* newS3FileDB return an error.
NewDynamoDB(nilConfig, s3Err) ==
  /\ ctor.pc = "start"
  /\ ctor' = IF nilConfig THEN Failed("nilDynamoConfigErr")
             ELSE IF s3Err THEN Failed("S3Err")
             ELSE [ctor EXCEPT !.pc = "poll"]
  /\ UNCHANGED <<table, blobs, op, rd, tstat>>
  /\ UNCHANGED batchVars

\* The statuses for which NewDynamoDB gives up.
FailStatus(st) == st \in {"DELETING", "ARCHIVING", "ARCHIVED"}

\* One iteration of the loop of NewDynamoDB up to the switch: tableStatus()
\* fails with ResourceNotFoundException when there is no table, and then
\* createTable is called and tableStatus stays empty; describeErr and
\* createErr tell whether DescribeTable fails otherwise and whether
\* CreateTable fails.  Then the switch on tableStatus.
Poll(describeErr, createErr) ==
  /\ ctor.pc = "poll"
  /\ IF describeErr
       THEN /\ ctor' = Failed("DescribeTableErr")
            /\ UNCHANGED tstat
     ELSE IF tstat = "NotFound"
       THEN IF createErr
              THEN /\ ctor' = Failed("CreateTableErr")
                   /\ UNCHANGED tstat
              ELSE /\ ctor' = [ctor EXCEPT !.pc = "sleep", !.tableStatus = "",
                                           !.created = Min(@ + 1, MaxCreated)]
                   /\ tstat' = "CREATING"
     ELSE /\ ctor' = IF tstat = "ACTIVE"
                       THEN [ctor EXCEPT !.pc = "spawn", !.tableStatus = tstat]
                     ELSE IF FailStatus(tstat)
                       THEN [Failed("TableStatusErr") EXCEPT !.tableStatus = tstat]
                     ELSE [ctor EXCEPT !.pc = "sleep", !.tableStatus = tstat]
          /\ UNCHANGED tstat
  /\ UNCHANGED <<table, blobs, op, rd>>
  /\ UNCHANGED batchVars

\* time.Sleep(1 * time.Second) of NewDynamoDB is over.
PollAgain ==
  /\ ctor.pc = "sleep"
  /\ ctor' = [ctor EXCEPT !.pc = "poll"]
  /\ UNCHANGED <<table, blobs, op, rd, tstat>>
  /\ UNCHANGED batchVars

\* A loop that starts one worker less.
SpawnMoreButOne(i) == i + 1 < WorkerNum

\* The condition of the loop that starts the workers.
SpawnMore(i) == i < WorkerNum

\* case TableStatusActive: go dynamoDB.createBatchWriteWorker(), WorkerNum
\* times, then return the dynamoDB.
Spawn ==
  /\ ctor.pc = "spawn"
  /\ IF SpawnMore(ctor.started)
       THEN /\ worker' = [worker EXCEPT ![ctor.started + 1] = WorkerAt("select")]
            /\ ctor' = [ctor EXCEPT !.started = @ + 1]
       ELSE /\ ctor' = [ctor EXCEPT !.pc = "returned"]
            /\ UNCHANGED worker
  /\ UNCHANGED <<table, blobs, op, rd, tstat>>
  /\ UNCHANGED <<quitCh, writeCh, batchArr, batchOff, batchLen, size, wg,
                 uploads, sleeping, cpc, numRemainedItems, hist>>

\* The table changes its status at the service.
TableChanges ==
  /\ tstat' \in CASE tstat = "CREATING" -> {"ACTIVE"}
                  [] tstat = "UPDATING" -> {"ACTIVE"}
                  [] tstat = "ACTIVE" -> {"UPDATING", "DELETING", "ARCHIVING"}
                  [] tstat = "DELETING" -> {"NotFound"}
                  [] tstat = "ARCHIVING" -> {"ARCHIVED"}
                  [] OTHER -> {}
  /\ UNCHANGED <<table, blobs, op, rd, ctor>>
  /\ UNCHANGED batchVars

Next ==
  \/ hist.nCalls < MaxPuts /\ \E in \in PutInputs : Put(in[1], in[2])
  \/ PutSend
  \/ hist.nFlush < MaxWrites /\ Write
  \/ WriteSend
  \/ WriteWait
  \/ Reset
  \/ \E k \in Keys, v \in Vals : UploadDone(k, v)
  \/ \E w \in Workers : WorkerRecv(w)
  \/ \E w \in Workers : WorkerMarshal(w)
  \/ \E w \in Workers : WorkerCall(w, FALSE)
  \/ \E w \in Workers : WorkerDone(w)

\* Every call of BatchWriteItem with an acceptable batch succeeds as a whole
\* and every s3FileDB.write succeeds.
Spec == Init /\ [][Next]_vars

\* BatchWriteItem may also fail or return unprocessed items.
NextFaults ==
  \/ hist.nCalls < MaxPuts /\ \E in \in FaultInputs : Put(in[1], in[2])
  \/ PutSend
  \/ hist.nFlush < MaxWrites /\ Write
  \/ WriteSend
  \/ WriteWait
  \/ \E w \in Workers : WorkerRecv(w)
  \/ \E w \in Workers : WorkerMarshal(w)
  \/ \E w \in Workers, faulty \in BOOLEAN : WorkerCall(w, faulty)
  \/ \E w \in Workers : WorkerWake(w)
  \/ \E w \in Workers : WorkerDone(w)

SpecFaults == Init /\ [][NextFaults]_vars

\* The calls on dynamoDB next to one batch: PutItem, GetItem, DeleteItem and
\* PutObject may fail, BatchWriteItem does not; Close ends the workers.
NextStore ==
  \/ op.n < MaxCalls /\ \E k \in StoreKeys, v \in StoreVals : DynamoPut(k, v)
  \/ \E s3Err, putItemErr \in BOOLEAN : DynamoPutStep(s3Err, putItemErr)
  \/ op.n < MaxCalls /\ \E k \in StoreKeys, e \in BOOLEAN : DynamoGet(k, e)
  \/ op.n < MaxCalls /\ \E k \in StoreKeys, e \in BOOLEAN : DynamoHas(k, e)
  \/ ReadEnds
  \/ op.n < MaxCalls /\ \E k \in StoreKeys, e \in BOOLEAN : DynamoDelete(k, e)
  \/ hist.nCalls < dynamoBatchSize /\ \E in \in StoreBatchInputs : Put(in[1], in[2])
  \/ PutSend
  \/ hist.nFlush < MaxWrites /\ Write
  \/ WriteSend
  \/ WriteWait
  \/ \E k \in Keys, v \in Vals : UploadDone(k, v)
  \/ \E w \in Workers : WorkerRecv(w)
  \/ \E w \in Workers : WorkerMarshal(w)
  \/ \E w \in Workers : WorkerCall(w, FALSE)
  \/ \E w \in Workers : WorkerDone(w)
  \/ Close
  \/ \E w \in Workers : WorkerQuit(w)

SpecStore == Init /\ [][NextStore]_vars

\* A client that calls dynamoDB.Put, Get, Has and Delete one after the
\* other, with every key, and uses no batch.
NextPut ==
  \/ op.n < MaxCalls /\ \E k \in Keys, v \in DirectVals : DynamoPut(k, v)
  \/ \E s3Err, putItemErr \in BOOLEAN : DynamoPutStep(s3Err, putItemErr)
  \/ op.n < MaxCalls /\ \E k \in Keys, e \in BOOLEAN : DynamoGet(k, e)
  \/ op.n < MaxCalls /\ \E k \in Keys, e \in BOOLEAN : DynamoHas(k, e)
  \/ ReadEnds
  \/ op.n < MaxCalls /\ \E k \in Keys, e \in BOOLEAN : DynamoDelete(k, e)

SpecPut == Init /\ [][NextPut]_vars

\* One client that only puts, so that requests pile up in writeCh.
NextQueue ==
  \/ /\ hist.nCalls < MaxQueuePuts
     /\ Put(QueueInput(hist.nCalls)[1], QueueInput(hist.nCalls)[2])
  \/ PutSend
  \/ \E k \in Keys, v \in Vals : UploadDone(k, v)
  \/ \E w \in Workers : WorkerRecv(w)
  \/ \E w \in Workers : WorkerMarshal(w)
  \/ \E w \in Workers : WorkerCall(w, FALSE)
  \/ \E w \in Workers : WorkerDone(w)

SpecQueue == Init /\ [][NextQueue]_vars

\* Calls of s3FileDB.read on objects of every content up to MaxBody bytes.
NextRead ==
  \/ \E body \in Bodies, getObjectErr \in BOOLEAN : ReadCall(body, getObjectErr)
  \/ \E n \in 0..MaxBody, err \in {"nil", "EOF", "reset"} : ReadStep(n, err)

SpecRead == Init /\ [][NextRead]_vars

\* The construction of a dynamoDB on a table in any status, and its Close.
NextNew ==
  \/ \E nilConfig, s3Err \in BOOLEAN : NewDynamoDB(nilConfig, s3Err)
  \/ \E describeErr, createErr \in BOOLEAN : Poll(describeErr, createErr)
  \/ PollAgain
  \/ Spawn
  \/ TableChanges
  \/ ctor.pc = "returned" /\ ctor.err = "nil" /\ Close
  \/ \E w \in Workers : WorkerQuit(w)

SpecNew == InitNew /\ [][NextNew]_vars

\* The puts of QueueInputs that start an upload goroutine.
UploadInputs ==
  {u \in QueueInputs : len(u[1]) + len(u[2]) > dynamoWriteSizeLimit}

\* One batch whose uploads may fail any number of times.  A goroutine that
\* sleeps wakes up, and s3FileDB.write does not fail forever.
NextUpload ==
  \/ /\ hist.nCalls < MaxPuts
     /\ Put(QueueInput(hist.nCalls)[1], QueueInput(hist.nCalls)[2])
  \/ PutSend
  \/ hist.nFlush < MaxWrites /\ Write
  \/ WriteSend
  \/ WriteWait
  \/ \E k \in Keys, v \in Vals : UploadDone(k, v)
  \/ \E k \in Keys, v \in Vals : UploadFail(k, v)
  \/ \E k \in Keys, v \in Vals : UploadRetry(k, v)
  \/ \E w \in Workers : WorkerRecv(w)
  \/ \E w \in Workers : WorkerMarshal(w)
  \/ \E w \in Workers : WorkerCall(w, FALSE)
  \/ \E w \in Workers : WorkerDone(w)

SpecUpload ==
  /\ Init
  /\ [][NextUpload]_vars
  /\ \A u \in UploadInputs :
       WF_vars(UploadRetry(u[1], u[2])) /\ SF_vars(UploadDone(u[1], u[2]))

(***************************************************************************)
(* Properties                                                              *)
(***************************************************************************)

\* A call of Write has returned and no value has been put since.
FlushReturned == cpc = "idle" /\ ~hist.dirty /\ hist.nFlush > 0

\* Nothing registered on batch.wg is outstanding: no request waits in
\* writeCh or is held by a worker, and no upload goroutine runs.
AllSignalled ==
  /\ wg = 0
  /\ writeCh = <<>>
  /\ \A w \in Workers : worker[w].pc = "select"
  /\ \A u \in Keys \X Vals : uploads[u] = 0

Oversize(k, v) == len(k) + len(v) > dynamoWriteSizeLimit

Ceil(m, n) == (m + n - 1) \div n

\* C1: Write returns only after every request sent to the workers has been
\* written and every upload started by Put has succeeded.
C1_FlushWaitsForAll == FlushReturned => AllSignalled

\* C2: after Put(k, v) with an item within the size limit and a Write that
\* returned, Get(k) is v.
C2_InlineRoundTrip ==
  FlushReturned =>
    \A k \in Keys \ {""} :
      (hist.cov[k] # NoRow /\ ~Oversize(k, hist.cov[k])) => Get(k) = hist.cov[k]

\* C3: after Put(k, v) with an item over the size limit and a Write that
\* returned, Get(k) is v, the row of k holds the marker and the bucket holds
\* v under the name of k.
C3_OversizeRoundTrip ==
  FlushReturned =>
    \A k \in Keys \ {""} :
      (hist.cov[k] # NoRow /\ Oversize(k, hist.cov[k])) =>
        /\ Get(k) = hist.cov[k]
        /\ table[k] = overSizedDataPrefix
        /\ blobs[Encode(k)] = hist.cov[k]

\* C4: Put(k, v1); Write; Put(k, v2); Write leaves Get(k) = v2.
C4_LastWriterWins ==
  FlushReturned =>
    \A k \in hist.old \ {""} : hist.cov[k] # NoRow => Get(k) = hist.cov[k]

\* Nothing is in progress: the client is between calls, writeCh is empty
\* and every worker waits in its select.
Quiescent ==
  /\ cpc = "idle"
  /\ writeCh = <<>>
  /\ \A w \in Workers : worker[w].pc = "select"

\* C5: with BatchWriteItem failing only transiently, every item of every
\* request sent to the workers gets written and a pending Write returns:
\* once nothing is in progress any more, no item sent is still unwritten.
C5_AllItemsPersisted == Quiescent => hist.pending = {}

\* C6: N calls of Put followed by one Write send ceil(M / dynamoBatchSize)
\* requests to the workers, M being the number of calls with a non-empty
\* value.
C6_RequestCount ==
  (/\ hist.nFlush = 1
   /\ ~hist.wasReset
   /\ cpc = "write_wait" \/ FlushReturned)
  => hist.nEnq = Ceil(hist.nPut, dynamoBatchSize)

\* More puts than one request holds, one Write: a full request and a rest.
C6_Witness ==
  /\ hist.nFlush = 1 /\ ~hist.wasReset /\ FlushReturned
  /\ hist.nPut > dynamoBatchSize
  /\ hist.nEnq = 2

\* C7: every request in writeCh or taken by a worker carries between 1 and
\* dynamoBatchSize items.
C7_RequestSize ==
  /\ \A i \in 1..Len(writeCh) : writeCh[i].len \in 1..dynamoBatchSize
  /\ \A w \in Workers :
       worker[w].pc \notin {"select", "exited"} =>
         worker[w].req.len \in 1..dynamoBatchSize

\* After a call of Reset, a request sent by Put waits with one sent by Write.
C7_Witness ==
  /\ hist.wasReset
  /\ \E i, j \in 1..Len(writeCh) :
       writeCh[i].len = dynamoBatchSize /\ writeCh[j].len < dynamoBatchSize

\* C8: a worker calls wg.Done() for a request only when every item of the
\* request has been written by its calls of BatchWriteItem.
C8_DoneAfterAllWritten ==
  \A w \in Workers :
    worker[w].pc = "done" => Range(worker[w].req.orig) \subseteq worker[w].written

\* C9: when no put is left without a Write that returned, every row that
\* holds the marker has an object in the bucket under its key.
C9_MarkerHasBlob ==
  (cpc = "idle" /\ ~hist.dirty) =>
    \A k \in Keys : table[k] = overSizedDataPrefix => blobs[Encode(k)] # NoRow

\* C10: every item handed to BatchWriteItem is within the item size limit.
C10_ItemsWithinLimit ==
  \A w \in Workers :
    worker[w].pc = "call" =>
      \A i \in 1..Len(worker[w].buf) :
        len(worker[w].buf[i].key) + len(worker[w].buf[i].val) <= dynamoWriteSizeLimit

\* A step that is, or completes, a call of the named operation of dynamoDB.
OpStep(name) == op' # op /\ op'.name = name

\* C11: Get returns dataNotFoundErr without a row, the empty value for a
\* row whose Val is NULL, what s3FileDB.read returns for a row holding the
\* marker and the Val of the row otherwise; it changes neither the table
\* nor the bucket.
C11_GetContract ==
  [][OpStep("Get") =>
       /\ table' = table
       /\ blobs' = blobs
       /\ (op'.pc = "returned" /\ op'.err # "GetItemErr") =>
            LET k == op'.key
                r == <<op'.ret, op'.err>>
            IN  /\ table[k] = NoRow => r = <<"", "dataNotFoundErr">>
                /\ table[k] = "" => r = <<"", "nil">>
                /\ table[k] = overSizedDataPrefix =>
                     r = (IF blobs[Encode(k)] = NoRow
                            THEN <<"", "NoSuchKey">>
                            ELSE <<blobs[Encode(k)], "nil">>)
                /\ table[k] \notin {NoRow, "", overSizedDataPrefix} =>
                     r = <<table[k], "nil">>]_vars

\* Get has returned an oversized value that it read from the bucket.
C11_Witness ==
  /\ op.name = "Get" /\ op.pc = "returned"
  /\ op.ret = "B" /\ op.err = "nil"
  /\ table[op.key] = overSizedDataPrefix

\* C12: Has never returns dataNotFoundErr: a missing row gives false
\* without an error.
C12_HasRecoversNotFound ==
  (op.name = "Has" /\ op.pc = "returned") => op.err # "dataNotFoundErr"

\* C13: Put with an empty key returns nil at once, writes neither a row nor
\* an object, and Has of the empty key is false afterwards.
C13_EmptyKeyPut ==
  [][(OpStep("Put") /\ op'.key = "") =>
       /\ table' = table
       /\ blobs' = blobs
       /\ op.pc = "entry" => (op'.pc = "returned" /\ op'.err = "nil")
       /\ op'.nBlob = 0 /\ op'.nRow = 0
       /\ HasReturns(GetReturns("", FALSE))'[1] = "false"]_vars

\* Put with an empty key and an oversized value has returned.
C13_Witness ==
  /\ op.name = "Put" /\ op.pc = "returned"
  /\ op.key = "" /\ op.val = "B" /\ op.err = "nil"
  /\ blobs[Encode("")] = NoRow

\* C16: Delete removes the row, so that Get gives dataNotFoundErr, and
\* leaves the bucket as it is; no step of any operation removes an object
\* from the bucket.
C16_DeleteKeepsBlobs ==
  [][/\ (OpStep("Delete") /\ op'.err = "nil") =>
          /\ GetReturns(op.key, FALSE)'[2] = "dataNotFoundErr"
          /\ blobs' = blobs
     /\ \A n \in BlobNames : blobs[n] # NoRow => blobs'[n] # NoRow]_vars

\* The row of an oversized value has been deleted and its object remains.
C16_Witness ==
  /\ op.name = "Delete" /\ op.pc = "returned" /\ op.err = "nil"
  /\ table[op.key] = NoRow
  /\ blobs[Encode(op.key)] = "B"

\* C17: once quitCh is closed no worker takes a request from writeCh.
C17_NoReceiveAfterClose ==
  [][quitCh => Len(writeCh') >= Len(writeCh)]_vars

\* C14: no item with an empty key is in batch.batchItems, in a request or
\* in a call of BatchWriteItem.
C14_NoEmptyKeyItems ==
  /\ \A i \in 1..batchLen : batchArr[batchOff + i].key # ""
  /\ \A i \in 1..Len(writeCh) : \A it \in Range(View(writeCh[i])) : it.key # ""
  /\ \A w \in Workers : \A it \in Range(worker[w].buf) : it.key # ""

\* C15: a call of dynamoBatch.Put with an empty value returns with
\* batchItems, size, wg, writeCh and the upload goroutines as they were, and
\* writes nothing to the table or the bucket.
C15_EmptyValueDropped ==
  [][(hist'.nCalls = hist.nCalls + 1 /\ hist'.nPut = hist.nPut) =>
       UNCHANGED <<batchArr, batchOff, batchLen, size, wg, writeCh, uploads,
                   cpc, table, blobs>>]_vars

\* A Put with an empty value, then a Write that returned: no row.
C15_Witness ==
  /\ hist.nCalls > hist.nPut
  /\ hist.nPut = 0
  /\ FlushReturned
  /\ table["k"] = NoRow

\* C18: writeCh never holds more than WorkerNum * 2 requests; the send of
\* Put proceeds whenever writeCh is not full, and the rest of Put never
\* waits, whatever the upload goroutines do.
C18_QueueBound ==
  /\ Len(writeCh) <= WorkerNum * 2
  /\ (cpc = "put_send" /\ Len(writeCh) < WorkerNum * 2) => ENABLED PutSend
  /\ cpc = "idle" => \A in \in QueueInputs : ENABLED Put(in[1], in[2])

\* Put waits with a full batch at a full writeCh while an upload runs.
C18_Witness ==
  /\ cpc = "put_send"
  /\ Len(writeCh) = WorkerNum * 2
  /\ ~ENABLED PutSend
  /\ \E u \in Keys \X Vals : uploads[u] > 0

\* C19: s3FileDB.read returns the whole body however Body.Read splits it:
\* while bytes are missing, the buffer it hands to Body.Read has room for
\* some, and a return without an error returns the body.
C19_ReadReturnsBody ==
  /\ (rd.pc = "loop" /\ rd.totalReadSize < rd.bodySize) => rd.lenBuf > 0
  /\ (rd.pc = "returned" /\ rd.err = "nil") => rd.returnVal = rd.body

\* The workers that have been started.
Started == {w \in Workers : worker[w].pc # "unstarted"}

\* C20: NewDynamoDB returns a dynamoDB only after it has seen the table
\* ACTIVE and then has started WorkerNum workers; a failed construction has
\* started none; a poll that sees CREATING or UPDATING sleeps and polls
\* again, one that finds no table creates it and polls again, or fails if
\* the creation fails, and one that sees DELETING, ARCHIVING or ARCHIVED
\* fails.
C20_Construction ==
  [][/\ (ctor'.pc = "returned" /\ ctor'.err = "nil") =>
          /\ ctor'.tableStatus = "ACTIVE"
          /\ Cardinality(Started') = WorkerNum
     /\ (ctor'.pc = "returned" /\ ctor'.err # "nil") => Started' = {}
     /\ ctor'.pc \in {"start", "poll", "sleep"} => Started' = {}
     /\ (ctor.pc = "poll" /\ ctor' # ctor /\ ctor'.err # "DescribeTableErr") =>
          /\ tstat \in {"CREATING", "UPDATING"} => ctor'.pc = "sleep"
          /\ tstat = "NotFound" =>
               \/ ctor'.pc = "sleep" /\ tstat' = "CREATING"
               \/ ctor'.pc = "returned" /\ ctor'.err = "CreateTableErr"
          /\ tstat \in {"DELETING", "ARCHIVING", "ARCHIVED"} =>
               ctor'.pc = "returned" /\ ctor'.err = "TableStatusErr"
          /\ tstat = "ACTIVE" => ctor'.pc = "spawn"
     /\ (ctor.pc = "sleep" /\ ctor' # ctor) => ctor'.pc = "poll"
     /\ (ctor.pc = "start" /\ ctor'.pc = "poll") => ctor'.err = "nil"]_vars

\* NewDynamoDB found no table, created it, polled until it was ACTIVE and
\* returned with all workers started.
C20_Witness ==
  /\ ctor.pc = "returned" /\ ctor.err = "nil"
  /\ ctor.created > 0
  /\ Cardinality(Started) = WorkerNum

\* C21: the items of a request stay what they were when it was sent, in
\* writeCh and while a worker holds it.
C21_RequestItemsFixed ==
  /\ \A i \in 1..Len(writeCh) : View(writeCh[i]) = writeCh[i].orig
  /\ \A w \in Workers :
       worker[w].pc \in {"marshal", "call", "sleep", "done"} =>
         View(worker[w].req) = worker[w].req.orig

\* A step in which BatchWriteItem returns to worker w.
CallReturns(w) ==
  /\ worker[w].pc = "call"
  /\ [worker'[w] EXCEPT !.req = worker[w].req] # worker[w]

\* A step in which BatchWriteItem returns to worker w and w will call again.
CallRetries(w) ==
  CallReturns(w) /\ worker'[w].pc \in {"sleep", "marshal", "call"}

\* C22 as stated: a worker that has to call again sleeps first exactly when
\* failCount exceeds dynamoMaxRetry.
C22_SleepsWhenOverMax ==
  [][\A w \in Workers :
       CallRetries(w) =>
         (worker'[w].pc = "sleep" <=> worker'[w].failCount > dynamoMaxRetry)]_vars

\* C22, amended: failCount grows by one with every call that returns an
\* error and with no other call; a worker that has to call again sleeps
\* first exactly when the call returned an error and failCount then exceeds
\* dynamoMaxRetry; failCount is set to zero when a request is done and not
\* before, and is zero at the select.
C22_FailCount ==
  [][\A w \in Workers :
       /\ CallReturns(w) =>
            worker'[w].failCount =
              worker[w].failCount + (IF worker'[w].lastErr THEN 1 ELSE 0)
       /\ CallRetries(w) =>
            (worker'[w].pc = "sleep" <=>
               (worker'[w].lastErr /\ worker'[w].failCount > dynamoMaxRetry))
       /\ (CallReturns(w) /\ worker'[w].pc = "done") =>
            (~worker'[w].lastErr /\ worker'[w].lastU = <<>>)
       /\ worker[w].pc \notin {"call", "done"} =>
            worker'[w].failCount = worker[w].failCount
       /\ worker'[w].pc = "select" => worker'[w].failCount = 0]_vars

\* A worker whose failCount exceeds dynamoMaxRetry calls again without a
\* sleep, after a call that returned unprocessed items and no error.
C22_Witness ==
  \E w \in Workers :
    /\ worker[w].pc = "call"
    /\ worker[w].failCount > dynamoMaxRetry
    /\ ~worker[w].lastErr
    /\ worker[w].lastU # <<>>

\* C23: after a call that returned unprocessed items, with or without an
\* error, the next call carries exactly these items, none of which the
\* call had written.
C23_RetryUnprocessedOnly ==
  \A w \in Workers :
    (worker[w].pc = "call" /\ worker[w].lastU # <<>>) =>
      /\ worker[w].buf = worker[w].lastU
      /\ Range(worker[w].buf) \cap worker[w].lastP = {}

\* A call wrote a part of its items, returned the rest as unprocessed
\* together with an error, and the worker is about to call again.
C23_Witness ==
  \E w \in Workers :
    /\ worker[w].pc = "call"
    /\ worker[w].lastErr
    /\ worker[w].lastU # <<>>
    /\ worker[w].lastP # {}
    /\ worker[w].buf = worker[w].lastU

\* The sum of f over D.
RECURSIVE SumOf(_, _)
SumOf(f, D) ==
  IF D = {} THEN 0
  ELSE LET x == CHOOSE y \in D : TRUE IN f[x] + SumOf(f, D \ {x})

\* The units registered on batch.wg that are not finished: the requests in
\* writeCh or held by a worker, the upload goroutines, and the request that
\* Put is about to send.
Unfinished ==
  Len(writeCh)
  + Cardinality({w \in Workers : worker[w].pc \in {"marshal", "call", "sleep", "done"}})
  + SumOf(uploads, Keys \X Vals)
  + (IF cpc = "put_send" THEN 1 ELSE 0)

\* C24: the counter of batch.wg is the number of unfinished units: a unit
\* is registered before its request is sent or its upload started and
\* taken off once, so the counter is never negative and is zero only when
\* nothing is unfinished.
C24_WaitGroupCounts ==
  /\ wg = Unfinished
  /\ wg >= 0

\* A request waits in writeCh, a worker holds another, an upload runs and
\* Put has registered the request it is about to send.
C24_Witness ==
  /\ Len(writeCh) > 0
  /\ \E w \in Workers : worker[w].pc = "call"
  /\ \E u \in Keys \X Vals : uploads[u] > 0
  /\ wg >= 3

\* C25: an upload goroutine ends only with a successful s3FileDB.write,
\* which leaves the value of the put under the key and takes one unit off
\* batch.wg; a failed write changes nothing but sends the goroutine to
\* sleep, after which it tries again; and if writes do not fail forever,
\* every upload ends.
C25_UploadRetries ==
  /\ [][\A u \in Keys \X Vals :
          /\ uploads'[u] < uploads[u] =>
               /\ blobs'[Encode(u[1])] = u[2]
               /\ wg' = wg - 1
          /\ sleeping'[u] > sleeping[u] =>
               /\ uploads' = uploads
               /\ UNCHANGED <<wg, blobs, table, cpc, hist, writeCh>>
          /\ sleeping'[u] < sleeping[u] => uploads' = uploads
          /\ sleeping'[u] <= uploads'[u]]_vars
  /\ \A u \in UploadInputs : (uploads[u] > 0) ~> (uploads[u] = 0)

\* A write has failed and the goroutine sleeps before it tries again; the
\* object is not in the bucket, and Write waits for the goroutine.
C25_Witness ==
  /\ cpc = "write_wait"
  /\ sleeping[<<"k", "B">>] > 0
  /\ blobs[Encode("k")] = NoRow
  /\ wg > 0

\* The item dynamoBatch.Put records for the n-th call of the client of
\* SpecUpload (calls are counted from 0).
RecordedItem(n) ==
  LET in == QueueInput(n)
  IN  Item(in[1], IF Oversize(in[1], in[2]) THEN overSizedDataPrefix ELSE in[2])

\* The recorded items of the calls made so far, in put order.
Recorded == [i \in 1..hist.nCalls |-> RecordedItem(i - 1)]

\* No Put has been called since the first Write was called.
PutsThenOneFlush ==
  \/ hist.nFlush = 0
  \/ hist.nFlush = 1 /\ (cpc \in {"write_loop", "write_wait"} \/ ~hist.dirty)

\* C26: puts followed by one flush.  The request number n (from 0) is, when
\* it is sent, the slice of the recorded items from n * dynamoBatchSize + 1
\* up to (n + 1) * dynamoBatchSize or to the last item: the requests follow
\* each other without gap or overlap; what is not sent yet is what
\* batch.batchItems holds; and when the flush is over every recorded item
\* has been sent.
C26_ContiguousSlices ==
  /\ [][(PutsThenOneFlush' /\ Len(writeCh') > Len(writeCh)) =>
          /\ hist'.nEnq = hist.nEnq + 1
          /\ writeCh'[Len(writeCh')].orig =
               SubSeq(Recorded, hist.nEnq * dynamoBatchSize + 1,
                      Min((hist.nEnq + 1) * dynamoBatchSize, hist.nCalls))
          /\ writeCh'[Len(writeCh')].orig # <<>>]_vars
  /\ [](hist.nFlush = 0 =>
          Window(batchArr, batchOff, batchLen) =
            SubSeq(Recorded, hist.nEnq * dynamoBatchSize + 1, hist.nCalls))
  /\ []((hist.nFlush = 1 /\ (cpc = "write_wait" \/ FlushReturned)) =>
          hist.nEnq = Ceil(hist.nCalls, dynamoBatchSize))

\* Three puts and a flush: the first request took the first two items when
\* the second put filled the batch, the flush has sent the third.
C26_Witness ==
  /\ hist.nFlush = 1 /\ cpc = "write_wait"
  /\ hist.nCalls = 3 /\ hist.nEnq = 2
  /\ \E i \in 1..Len(writeCh) : writeCh[i].orig = <<RecordedItem(2)>>

\* The items batch.batchItems holds.
Held == Window(batchArr, batchOff, batchLen)

\* C27: batch.size is the sum of the lengths of the values of the items in
\* batch.batchItems, where the value of an oversized item is the marker of
\* 13 bytes; it is zero exactly when batch.batchItems is empty; and a Reset
\* leaves batch.batchItems empty and batch.size zero.
C27_SizeIsSumOfHeld ==
  /\ [](size = SumOf([i \in 1..batchLen |-> len(Held[i].val)], 1..batchLen))
  /\ [](size = 0 <=> batchLen = 0)
  /\ [][hist'.wasReset /\ ~hist.wasReset => size' = 0 /\ batchLen' = 0]_vars
  /\ [](len(overSizedDataPrefix) = 13)

\* batch.batchItems holds one oversized item, counted with 13 bytes.
C27_Witness ==
  /\ batchLen = 1
  /\ Held[1].val = overSizedDataPrefix
  /\ \E u \in Keys \X Vals : uploads[u] > 0
  /\ size = 13

\* A step of an activation of dynamoDB.Put.
PutActs == op.name = "Put" /\ op.pc = "entry"

\* C28: dynamoDB.Put of an oversized value.  The object is written while no
\* row has been written, and Put goes on to the row; when s3FileDB.write
\* fails Put returns its error at once, with the table and the bucket as
\* they were; when PutItem fails Put returns its error at once; the row
\* that is written is the marker, and the object of the key was written
\* before it; and a Put within the limit writes no object.
C28_BlobThenRow ==
  /\ [][PutActs =>
          /\ blobs' # blobs =>
               op.nRow = 0 /\ table' = table /\ op'.pc = "entry"
          /\ op'.err = "S3Err" =>
               /\ op'.pc = "returned" /\ table' = table /\ blobs' = blobs
               /\ op.nRow = 0
          /\ op'.err = "PutItemErr" =>
               op'.pc = "returned" /\ table' = table /\ blobs' = blobs
          /\ (table' # table /\ Oversize(op.key, op.arg)) =>
               /\ op.nBlob >= 1
               /\ table'[op.key] = overSizedDataPrefix
               /\ op'.pc = "returned" /\ op'.err = "nil"]_vars
  /\ []((op.name = "Put" /\ op.err # "nil") => op.pc = "returned")
  /\ []((op.name = "Put" /\ op.err = "S3Err") => op.nRow = 0)
  /\ []((op.name = "Put" /\ ~Oversize(op.key, op.arg)) => op.nBlob = 0)

\* The object of an oversized value was written, then PutItem failed: Put
\* has returned the error and there is no row.
C28_Witness ==
  /\ op.name = "Put" /\ op.pc = "returned" /\ op.err = "PutItemErr"
  /\ Oversize(op.key, op.arg)
  /\ op.nBlob = 1 /\ blobs[Encode(op.key)] = op.arg
  /\ table[op.key] = NoRow

\* A step in which dynamoDB.Put returns nil for a non-empty key.
PutSucceeds ==
  /\ PutActs
  /\ op'.pc = "returned" /\ op'.err = "nil"
  /\ len(op.key) > 0

\* C29: when dynamoDB.Put(k, v) has returned nil for a non-empty key k, a
\* Get(k) whose calls of the services succeed returns v.
C29_RoundTrip ==
  [][PutSucceeds => GetReturns(op.key, FALSE)' = <<op.arg, "nil">>]_vars

\* C30: one call of dynamoDB.Put calls itself at most once and writes at
\* most one object and at most one row.
C30_PutRecursesOnce ==
  op.name = "Put" => op.depth <= 1 /\ op.nBlob <= 1 /\ op.nRow <= 1

====
